---- MODULE Spec2Model ----
(***************************************************************************)
(* A model of the data pipeline (data_reader.py: patch_arrays,             *)
(* train_valid_test_split, and the DataReader: its loader, its constructor *)
(* and its batch sampler) and of the training control loop (train.py:      *)
(* train and RunConfig) of brilliant_people.                               *)
(*                                                                         *)
(* Python indices are 0-based; a Python list l is the sequence whose       *)
(* element l[i] sits at position i + 1.                                    *)
(***************************************************************************)
EXTENDS Integers, Sequences, FiniteSets, TLC

(***************************************************************************)
(* Bounds of the model.                                                    *)
(***************************************************************************)
\* largest training partition
MaxN == 10
\* largest batch size requested when the sizes vary from call to call
MaxBatch == 3
\* largest batch size of a pass over the partition with one batch size
MaxPassBatch == 4
\* examples requested between two rewinds
MaxTotal == 12
\* longest example (rows of its matrix)
MaxRows == 2
\* class labels
NumClasses == 2
\* columns of every matrix (the embedding width)
FeatureDim == 2
\* longest list handed to patch_arrays on its own
MaxArrays == 2
\* iterations of the training loop that are explored
MaxSteps == 50
\* longest label sequence handed to train_valid_test_split on its own
MaxSplitN == 5
\* most identifiers expected by _read_data_from_files
MaxPeople == 2
\* most examples a reader is constructed from
MaxBuildN == 7

VARIABLES
    \* ---- DataReader (data_reader.py) ----
    XData_train, YData_train,   \* the training partition
    XData_valid, YData_valid,   \* the validation partition
    XData_test, YData_test,     \* the test partition
    maxXLen,                    \* rows of the longest example of all
    globalBatchIndex,           \* the cursor
    batchIndices,               \* get_next_training_batch's local: the indices of
                                \* the batch it returned, as shuffled
    call,                       \* the last operation invoked, with its arguments
    ret,                        \* what it returned
    total,                      \* examples requested since the cursor was last 0
    passK,                      \* the batch size of a pass (0: sizes vary)
    visits,                     \* how often a pass returned each training index
    \* ---- patch_arrays called on its own ----
    arrays, numrows,            \* its arguments
    patched,                    \* its result
    \* ---- train (train.py) ----
    runScale,                   \* the argument runScale
    pc,                         \* where train() stands
    runConfig,                  \* RunConfig(runScale)
    dataRead,                   \* dataReaderMaker was called
    trainSize,                  \* dataReader.trainSize
    initialLr,                  \* model.initialLearningRate
    modelLr,                    \* the model's learning rate (assign_lr)
    step, numDataPoints, lr,    \* the loop's locals
    bestValidC, bestValidAcc, numValidWorse,
    lrDecayPerCycle,
    curValidC, curValidAcc,
    snapshots,                  \* the global_step of every saver.save, in order
    \* ---- what an observer of a run counts ----
    trainCount,                 \* calls of model.train_op
    validCount,                 \* evaluation passes over the validation partition
    testCount,                  \* evaluation passes over the test partition
    seenMinC, seenMaxAcc,       \* least loss and greatest accuracy validated so far
    consecWorse,                \* validations in a row that improved on neither
    worseCount,                 \* validations that improved on neither, in all
    earlyStopped,               \* the loop was left by its break
    raised,                     \* the operation of the model that raised, if any
    \* ---- train_valid_test_split called on its own ----
    YData_,                     \* its argument YData_: the class of every example
    trainSize_, validSize_, testSize_,   \* its size arguments
    split,                      \* its result
    \* ---- DataReader._read_data_from_files ----
    vectorFilesDir, embeddingsFilename,   \* its arguments: given or not
    peopleData,                 \* processed_names.json: the expected occupation of
                                \* every identifier, in the order of the file
    files,                      \* the backing store: for every identifier its file,
                                \* or NoFile
    XData, YData_raw_labels,    \* what was loaded so far
    nonexist,                   \* the identifiers found missing so far
    name,                       \* the loop's position in peopleData
    loadedMaxXLen,              \* self.maxXLen as line 134 sets it
    loadPc                      \* where _read_data_from_files stands

readerVars == <<XData_train, YData_train, XData_valid, YData_valid,
                XData_test, YData_test, maxXLen, globalBatchIndex,
                batchIndices, call, ret, total, passK, visits>>

patchVars == <<arrays, numrows, patched>>

trainVars == <<runScale, pc, runConfig, dataRead, trainSize, initialLr, modelLr,
               step, numDataPoints, lr, bestValidC, bestValidAcc, numValidWorse,
               lrDecayPerCycle, curValidC, curValidAcc, snapshots>>

observerVars == <<trainCount, validCount, testCount, seenMinC, seenMaxAcc,
                  consecWorse, worseCount, earlyStopped, raised>>

splitVars == <<YData_, trainSize_, validSize_, testSize_, split>>

loadVars == <<vectorFilesDir, embeddingsFilename, peopleData, files, XData,
              YData_raw_labels, nonexist, name, loadedMaxXLen, loadPc>>

\* the state of what builds a reader
buildVars == <<splitVars, loadVars>>

vars == <<readerVars, patchVars, trainVars, observerVars, buildVars>>

(***************************************************************************)
(* Helpers.                                                                *)
(***************************************************************************)
Min(a, b) == IF a <= b THEN a ELSE b

Max(a, b) == IF a >= b THEN a ELSE b

\* Python's max() of a non-empty list
MaxOf(s) == CHOOSE m \in {s[i] : i \in DOMAIN s} : \A i \in DOMAIN s : s[i] <= m

\* Python's list(range(a, b))
Range(a, b) == [j \in 1..(b - a) |-> a + j - 1]

\* ceil(a / b) for b > 0
CeilDiv(a, b) == (a + b - 1) \div b

\* the elements of a sequence
SetOf(s) == {s[i] : i \in DOMAIN s}

\* the value None of a keyword argument
None == -1

\* every order np.random.shuffle can leave a list in
Shuffles(s) == {[j \in DOMAIN s |-> s[p[j]]] : p \in Permutations(DOMAIN s)}

(***************************************************************************)
(* data_reader.py, module level.                                           *)
(***************************************************************************)
one_hot(ind, vecLen) == [j \in 1..vecLen |-> IF j = ind + 1 THEN 1 ELSE 0]

\* np.zeros((n, d)): n rows of d zeros
Zeros(n, d) == [r \in 1..n |-> [c \in 1..d |-> 0]]

\* np.append(arr, np.zeros((padLen - arr.shape[0], arr.shape[1])), axis=0)
PadTo(arr, padLen) == arr \o Zeros(padLen - Len(arr), FeatureDim)

\* a pad length that ignores numrows
PadLenOfBatchOnly(arrs, rows) == MaxOf([i \in DOMAIN arrs |-> Len(arrs[i])])

\* padLen = numrows or padLen: 0, like None, falls through to the batch's maximum
PadLenOf(arrs, rows) ==
    LET lengths == [i \in DOMAIN arrs |-> Len(arrs[i])]
        padLen  == MaxOf(lengths)
    IN  IF rows = None \/ rows = 0 THEN padLen ELSE rows

\* patch_arrays(arrays, numrows): the pair (res, lengths), or the error raised
patch_arrays(arrs, rows) ==
    IF Len(arrs) = 0
    THEN [ok |-> FALSE, error |-> "ValueError"]        \* max() of an empty list
    ELSE LET lengths == [i \in DOMAIN arrs |-> Len(arrs[i])]
             padLen0 == MaxOf(lengths)
         IN  IF ~(rows = None \/ rows >= padLen0)
             THEN [ok |-> FALSE, error |-> "AssertionError"]
             ELSE LET padLen == PadLenOf(arrs, rows)
                  IN  [ok      |-> TRUE,
                       res     |-> [i \in DOMAIN arrs |-> PadTo(arrs[i], padLen)],
                       lengths |-> lengths]

(***************************************************************************)
(* train_valid_test_split.  A size argument is a Python float, held as a   *)
(* whole number of twentieths, or a Python int, a number of examples; a    *)
(* fraction is a pair <<numerator, denominator>>.                          *)
(***************************************************************************)
\* the floats' unit: 1.0 in twentieths
FloatUnit == 20

PyFloat(t) == [int |-> FALSE, v |-> t]

PyInt(c) == [int |-> TRUE, v |-> c]

\* if type(size) == int: size /= 1. * totalLen
AsFraction(size, totalLen) ==
    IF size.int THEN <<size.v, totalLen>> ELSE <<size.v, FloatUnit>>

\* trainSize_ + validSize_ + testSize_ == 1
SumsToOne(a, b, c) ==
    a[1] * b[2] * c[2] + b[1] * a[2] * c[2] + c[1] * a[2] * b[2] = a[2] * b[2] * c[2]

\* floor(fraction * n) and ceil(fraction * n)
FloorOf(f, n) == (f[1] * n) \div f[2]

CeilOf(f, n) == (f[1] * n + f[2] - 1) \div f[2]

\* the members of class c in the label sequence y
ClassCount(y, c) == Cardinality({i \in DOMAIN y : y[i] = c})

\* StratifiedShuffleSplit(n_splits=1, test_size, train_size).split raises
\* ValueError: a fraction outside (0, 1), an empty training set, more examples
\* asked for than there are, a class of one member, or fewer training or test
\* examples than classes
SplitFails(y, test_size, train_size) ==
    LET n       == Len(y)
        n_test  == CeilOf(test_size, n)
        n_train == FloorOf(train_size, n)
        classes == SetOf(y)
    IN  \/ test_size[1] <= 0 \/ test_size[1] >= test_size[2]
        \/ train_size[1] <= 0 \/ train_size[1] >= train_size[2]
        \/ n_train = 0
        \/ n_train + n_test > n
        \/ \E c \in classes : ClassCount(y, c) < 2
        \/ n_train < Cardinality(classes)
        \/ n_test < Cardinality(classes)

\* the pairs (train_indices, test_indices) the split can yield: the first
\* n_train and the next n_test indices of a permutation of range(n).  The
\* library also balances the classes, which leaves fewer pairs, all among these.
SplitOutcomes(y, test_size, train_size) ==
    LET n       == Len(y)
        n_test  == CeilOf(test_size, n)
        n_train == FloorOf(train_size, n)
    IN  {<<[j \in 1..n_train |-> p[j] - 1],
           [j \in 1..n_test |-> p[n_train + j] - 1]>> : p \in Permutations(1..n)}

\* the indices that are not training indices
ValidIndicesNotTrain(train_indices, test_indices, totalLen) ==
    SelectSeq(Range(0, totalLen), LAMBDA i : i \notin SetOf(train_indices))

\* [i for i in range(totalLen) if i not in train_indices and i not in test_indices]
ValidIndices(train_indices, test_indices, totalLen) ==
    SelectSeq(Range(0, totalLen),
              LAMBDA i : i \notin SetOf(train_indices) /\ i \notin SetOf(test_indices))

\* train_valid_test_split(YData_, trainSize_, validSize_, testSize_): what it can
\* return, or the error it raises
train_valid_test_split(Y, trainSz, validSz, testSz) ==
    LET totalLen == Len(Y)
    IN  IF totalLen = 0 /\ (trainSz.int \/ validSz.int \/ testSz.int)
        THEN {[ok |-> FALSE, error |-> "ZeroDivisionError"]}
        ELSE LET tr == AsFraction(trainSz, totalLen)
                 va == AsFraction(validSz, totalLen)
                 te == AsFraction(testSz, totalLen)
             IN  IF ~SumsToOne(tr, va, te)
                 \* the assertion's message adds a str and a float
                 THEN {[ok |-> FALSE, error |-> "TypeError"]}
                 ELSE IF SplitFails(Y, te, tr)
                 THEN {[ok |-> FALSE, error |-> "ValueError"]}
                 ELSE {[ok    |-> TRUE,
                        train |-> o[1],
                        valid |-> ValidIndices(o[1], o[2], totalLen),
                        test  |-> o[2]] : o \in SplitOutcomes(Y, te, tr)}

\* train_valid_test_split is not under test
SplitIdle ==
    /\ YData_ = <<>>
    /\ trainSize_ = PyFloat(0) /\ validSize_ = PyFloat(0) /\ testSize_ = PyFloat(0)
    /\ split = [ok |-> FALSE, error |-> "not called"]

(***************************************************************************)
(* DataReader._read_data_from_files.  An identifier is a position of       *)
(* peopleData; a file of the store holds a matrix, of which the row count  *)
(* is kept, and in a vector file the occupation stored with it.            *)
(***************************************************************************)
\* os.path.exists(filename) is false
NoFile == [exists |-> FALSE]

\* the files an identifier can have
Files == {NoFile} \cup {[exists |-> TRUE, occupation |-> o, rows |-> r] :
                            o \in 0..(NumClasses - 1), r \in 1..MaxRows}

\* _read_data_from_files has not been called
LoadIdle ==
    /\ vectorFilesDir = FALSE /\ embeddingsFilename = FALSE
    /\ peopleData = <<>> /\ files = <<>>
    /\ XData = <<>> /\ YData_raw_labels = <<>>
    /\ nonexist = 0 /\ name = 0 /\ loadedMaxXLen = 0
    /\ loadPc = "idle"

\* _read_data_from_files(vectorFilesDir, embeddingsFilename, ...) is entered
LoadEntry ==
    /\ vectorFilesDir \in BOOLEAN /\ embeddingsFilename \in BOOLEAN
    /\ \E n \in 0..MaxPeople :
          /\ peopleData \in [1..n -> 0..(NumClasses - 1)]
          /\ files \in [1..n -> Files]
    /\ XData = <<>> /\ YData_raw_labels = <<>>
    /\ nonexist = 0 /\ name = 0 /\ loadedMaxXLen = 0
    /\ loadPc = "start"

loadArgsUnchanged == UNCHANGED <<vectorFilesDir, embeddingsFilename, peopleData, files>>

\* lines 74-81: the assertion on the arguments, processed_names.json, the empty lists
OpenPeopleData ==
    /\ loadPc = "start"
    /\ IF vectorFilesDir \/ embeddingsFilename
       THEN loadPc' = "loop" /\ name' = 1
       ELSE loadPc' = "AssertionError: arguments" /\ name' = name
    /\ loadArgsUnchanged
    /\ UNCHANGED <<XData, YData_raw_labels, nonexist, loadedMaxXLen>>

\* one iteration of for name, d in self._peopleData.items(), in either branch:
\* lines 86-105 read a vector file and compare its occupation, lines 116-128
\* convert a text file
ReadOne ==
    /\ loadPc = "loop"
    /\ name <= Len(peopleData)
    /\ LET occupation == peopleData[name]
           d          == files[name]
       IN  IF d.exists
           THEN IF vectorFilesDir /\ occupation # d.occupation
                THEN /\ loadPc' = "AssertionError: occupation"
                     /\ UNCHANGED <<XData, YData_raw_labels, nonexist, name>>
                ELSE /\ XData' = Append(XData, d.rows)
                     /\ YData_raw_labels' = Append(YData_raw_labels, occupation)
                     /\ name' = name + 1
                     /\ UNCHANGED <<nonexist, loadPc>>
           ELSE /\ nonexist' = nonexist + 1
                /\ name' = name + 1
                /\ UNCHANGED <<XData, YData_raw_labels, loadPc>>
    /\ loadArgsUnchanged
    /\ UNCHANGED loadedMaxXLen

\* lines 130-134: the count of the missing is printed, the arrays are made, and
\* maxXLen is the max() of the row counts, which raises on an empty list
FinishRead ==
    /\ loadPc = "loop"
    /\ name > Len(peopleData)
    /\ IF Len(XData) = 0
       THEN loadPc' = "ValueError: max() of an empty list" /\ UNCHANGED loadedMaxXLen
       ELSE loadPc' = "done" /\ loadedMaxXLen' = MaxOf(XData)
    /\ loadArgsUnchanged
    /\ UNCHANGED <<XData, YData_raw_labels, nonexist, name>>

\* nothing that builds a reader is under test
BuildIdle == SplitIdle /\ LoadIdle

(***************************************************************************)
(* The store the reader is built from.  Example e has a matrix of          *)
(* ExampleLen(e) rows of FeatureDim columns and the label of class e mod   *)
(* NumClasses; the partitions hold consecutive examples.                   *)
(***************************************************************************)
ExampleLen(e) == 1 + (e % MaxRows)

\* a row of the embedding width, filled with v
Row(v) == [c \in 1..FeatureDim |-> v]

ExampleMat(e) == [r \in 1..ExampleLen(e) |-> Row(e + r)]

ExampleLabel(e) == one_hot(e % NumClasses, NumClasses)

\* the 0.15 : 0.7 share of the validation and the test partition
EvalSize(n) == CeilDiv(n, 5)

(***************************************************************************)
(* DataReader.                                                             *)
(***************************************************************************)
\* the state DataReader.__init__ leaves for a training partition of n examples
ReaderInit(n) ==
    /\ XData_train = [i \in 1..n |-> ExampleMat(i - 1)]
    /\ YData_train = [i \in 1..n |-> ExampleLabel(i - 1)]
    /\ XData_valid = [i \in 1..EvalSize(n) |-> ExampleMat(n + i - 1)]
    /\ YData_valid = [i \in 1..EvalSize(n) |-> ExampleLabel(n + i - 1)]
    /\ XData_test = [i \in 1..EvalSize(n) |-> ExampleMat(n + EvalSize(n) + i - 1)]
    /\ YData_test = [i \in 1..EvalSize(n) |-> ExampleLabel(n + EvalSize(n) + i - 1)]
    /\ maxXLen = MaxOf([e \in 1..(n + 2 * EvalSize(n)) |-> ExampleLen(e - 1)])
    /\ globalBatchIndex = 0
    /\ batchIndices = <<>>
    /\ call = [op |-> "__init__"]
    /\ ret = <<>>
    /\ total = 0
    /\ visits = [i \in 0..(n - 1) |-> 0]

passUnchanged == UNCHANGED <<passK, visits>>

\* patch_arrays is not under test
PatchIdle ==
    /\ arrays = <<>>
    /\ numrows = None
    /\ patched = [ok |-> FALSE, error |-> "not called"]

dataUnchanged == UNCHANGED <<XData_train, YData_train, XData_valid, YData_valid,
                             XData_test, YData_test, maxXLen>>

\* fancy indexing: data[indices]
Take(data, indices) == [j \in DOMAIN indices |-> data[indices[j] + 1]]

\* a cursor reduced modulo the partition size
NewBatchIndexMod(g, batchSize_, totalNumData) == (g + batchSize_) % totalNumData

\* a cursor that skips the example after the batch
NewBatchIndexSkip(g, batchSize_, totalNumData) ==
    IF g + batchSize_ + 1 <= totalNumData
    THEN g + batchSize_ + 1
    ELSE g + batchSize_ + 1 - totalNumData

\* the cursor after a batch of batchSize_ from cursor g over totalNumData examples

NewBatchIndex(g, batchSize_, totalNumData) ==
    IF g + batchSize_ <= totalNumData
    THEN g + batchSize_
    ELSE g + batchSize_ - totalNumData

\* the window of a batch with its head dropped by one
BatchWindowShort(g, batchSize_, totalNumData) ==
    IF g + batchSize_ <= totalNumData
    THEN Range(g, g + batchSize_)
    ELSE Range(g, totalNumData) \o Range(1, g + batchSize_ - totalNumData)

\* the indices of the batch before the shuffle
BatchWindow(g, batchSize_, totalNumData) ==
    IF g + batchSize_ <= totalNumData
    THEN Range(g, g + batchSize_)
    ELSE Range(g, totalNumData) \o Range(0, g + batchSize_ - totalNumData)

Tally(v, indices) ==
    [i \in DOMAIN v |-> v[i] + Cardinality({j \in DOMAIN indices : indices[j] = i})]

\* the labels of the batch taken in the opposite order
YBatchReversed(indices) ==
    [j \in DOMAIN indices |-> YData_train[indices[Len(indices) + 1 - j] + 1]]

\* YBatch = self.YData_train[batchIndices]
YBatch(indices) == Take(YData_train, indices)

get_next_training_batch(batchSize_, patchTofull_) ==
    LET totalNumData == Len(XData_train)
        newBatchIndex == NewBatchIndex(globalBatchIndex, batchSize_, totalNumData)
    IN  /\ globalBatchIndex' = newBatchIndex
        /\ \E shuffled \in Shuffles(BatchWindow(globalBatchIndex, batchSize_, totalNumData)) :
              LET p == patch_arrays(Take(XData_train, shuffled),
                                    IF patchTofull_ THEN maxXLen ELSE None)
              IN  /\ batchIndices' = shuffled
                  /\ ret' = IF p.ok
                            THEN <<p.res, YBatch(shuffled), p.lengths>>
                            ELSE <<p.error>>      \* patch_arrays raises
        /\ call' = [op |-> "get_next_training_batch", batchSize_ |-> batchSize_,
                    patchTofull_ |-> patchTofull_]
        /\ total' = total + batchSize_
        /\ dataUnchanged

\* a rewind that leaves the cursor where it is
start_batch_keeps_cursor ==
    /\ globalBatchIndex' = globalBatchIndex
    /\ call' = [op |-> "start_batch_from_beginning"]
    /\ ret' = <<>>
    /\ total' = 0
    /\ batchIndices' = <<>>
    /\ dataUnchanged

start_batch_from_beginning ==
    /\ globalBatchIndex' = 0
    /\ call' = [op |-> "start_batch_from_beginning"]
    /\ ret' = <<>>
    /\ total' = 0
    /\ batchIndices' = <<>>
    /\ dataUnchanged

wherechu_at ==
    /\ call' = [op |-> "wherechu_at"]
    /\ ret' = <<globalBatchIndex>>
    /\ batchIndices' = <<>>
    /\ UNCHANGED <<globalBatchIndex, total>>
    /\ dataUnchanged

\* get_all_training_data, get_validation_data, get_test_data
GetAll(op, X, Y, patchTofull_) ==
    LET p == patch_arrays(X, IF patchTofull_ THEN maxXLen ELSE None)
    IN  /\ call' = [op |-> op, patchTofull_ |-> patchTofull_]
        /\ ret' = IF p.ok THEN <<p.res, Y, p.lengths>>
                          ELSE <<p.error>>      \* patch_arrays raises
        /\ batchIndices' = <<>>
        /\ UNCHANGED <<globalBatchIndex, total>>
        /\ dataUnchanged

get_all_training_data(patchTofull_) ==
    GetAll("get_all_training_data", XData_train, YData_train, patchTofull_)

get_validation_data(patchTofull_) ==
    GetAll("get_validation_data", XData_valid, YData_valid, patchTofull_)

get_test_data(patchTofull_) ==
    GetAll("get_test_data", XData_test, YData_test, patchTofull_)

\* the batch sizes the sampler is asked for: 1 <= batch_size <= partition size
BatchSizes == 1..Min(Len(XData_train), MaxBatch)

(***************************************************************************)
(* DataReader.__init__ after _read_data_from_files: the labels are         *)
(* encoded, the examples split 0.7 : 0.15 : 0.15, the training partition   *)
(* shuffled.  Loaded example i (from 1) has the matrix ExampleMat(i - 1).  *)
(***************************************************************************)
\* the state _read_data_from_files leaves when every one of n files is there,
\* raw_labels being the occupations
Loaded(raw_labels) ==
    /\ vectorFilesDir = TRUE /\ embeddingsFilename = FALSE
    /\ peopleData = raw_labels
    /\ files = [i \in DOMAIN raw_labels |->
                   [exists |-> TRUE, occupation |-> raw_labels[i],
                    rows |-> ExampleLen(i - 1)]]
    /\ XData = [i \in DOMAIN raw_labels |-> ExampleLen(i - 1)]
    /\ YData_raw_labels = raw_labels
    /\ nonexist = 0
    /\ name = Len(raw_labels) + 1
    /\ loadedMaxXLen = MaxOf([i \in DOMAIN raw_labels |-> ExampleLen(i - 1)])
    /\ loadPc = "done"

\* a reader whose constructor has not come to the split
Unbuilt ==
    /\ XData_train = <<>> /\ YData_train = <<>>
    /\ XData_valid = <<>> /\ YData_valid = <<>>
    /\ XData_test = <<>> /\ YData_test = <<>>
    /\ maxXLen = 0
    /\ globalBatchIndex = 0
    /\ batchIndices = <<>>
    /\ call = [op |-> "_read_data_from_files"]
    /\ ret = <<>>
    /\ total = 0
    /\ visits = <<>>

\* LabelEncoder().fit_transform(labels): the rank of every label among the
\* distinct labels, in sorted order
fit_transform(labels) ==
    [i \in DOMAIN labels |-> Cardinality({c \in SetOf(labels) : c < labels[i]})]

\* self.YData: one one-hot row per example, as wide as there are classes
EncodedY(labels) ==
    [i \in DOMAIN labels |->
        one_hot(fit_transform(labels)[i], Cardinality(SetOf(labels)))]

\* self.XData: the matrices loaded
LoadedX == [i \in DOMAIN XData |-> ExampleMat(i - 1)]

\* the fractions of line 160: 0.7, 0.15, 0.15
InitTrainFraction == PyFloat(14)

InitEvalFraction == PyFloat(3)

\* lines 145-179
Construct ==
    /\ call.op = "_read_data_from_files"
    /\ loadPc = "done"
    /\ \E s \in train_valid_test_split(YData_raw_labels, InitTrainFraction,
                                       InitEvalFraction, InitEvalFraction) :
          /\ IF s.ok
             THEN LET X == LoadedX
                      Y == EncodedY(YData_raw_labels)
                      XData_train0 == Take(X, s.train)
                      YData_train0 == Take(Y, s.train)
                  IN  /\ XData_valid' = Take(X, s.valid)
                      /\ YData_valid' = Take(Y, s.valid)
                      /\ XData_test' = Take(X, s.test)
                      /\ YData_test' = Take(Y, s.test)
                      /\ \E orders \in Shuffles(Range(0, Len(XData_train0))) :
                            /\ XData_train' = Take(XData_train0, orders)
                            /\ YData_train' = Take(YData_train0, orders)
                      /\ call' = [op |-> "__init__"]
             ELSE /\ UNCHANGED <<XData_train, YData_train, XData_valid, YData_valid,
                                 XData_test, YData_test>>
                  /\ call' = [op |-> "__init__", error |-> s.error]
    /\ maxXLen' = loadedMaxXLen
    /\ globalBatchIndex' = 0
    /\ UNCHANGED <<batchIndices, ret, total, visits, passK>>
    /\ UNCHANGED <<splitVars, loadVars>>
    /\ UNCHANGED <<patchVars, trainVars, observerVars>>

(***************************************************************************)
(* train.py: RunConfig and train.                                          *)
(*                                                                         *)
(* Losses and accuracies are whole numbers of hundredths.  Learning rates  *)
(* are whole multiples of 1e-7, the default lowerBound_, and the decay     *)
(* multipliers are fixed-point numbers of LrScale to the unit, rounded     *)
(* down after every multiplication.                                        *)
(***************************************************************************)
\* the names RunConfig.__init__ accepts
RunConfigScales == {"basic", "tiny", "small", "medium", "full"}

\* the names train() accepts
TrainScales == {"basic", "tiny", "small", "full"}

\* the names a caller may pass: the presets and one that is none
ScaleNames == RunConfigScales \cup {"huge"}

\* RunConfig(scale): numSteps, batchSize, logValidationEvery, failToImproveTolerance
RunConfig(scale) ==
    CASE scale = "basic"  -> [numSteps |-> 5, batchSize |-> 2,
                              logValidationEvery |-> 3, failToImproveTolerance |-> 1]
      [] scale = "tiny"   -> [numSteps |-> 10, batchSize |-> 20,
                              logValidationEvery |-> 3, failToImproveTolerance |-> 1]
      [] scale = "small"  -> [numSteps |-> 100, batchSize |-> 50,
                              logValidationEvery |-> 5, failToImproveTolerance |-> 2]
      [] scale = "medium" -> [numSteps |-> 200, batchSize |-> 100,
                              logValidationEvery |-> 10, failToImproveTolerance |-> 3]
      [] scale = "full"   -> [numSteps |-> 1000, batchSize |-> 200,
                              logValidationEvery |-> 12, failToImproveTolerance |-> 4]

NoConfig == [numSteps |-> 0, batchSize |-> 0,
             logValidationEvery |-> 0, failToImproveTolerance |-> 0]

\* one in fixed point
LrScale == 10000
\* lrDecayPerCycle = 0.9
InitialLrDecayPerCycle == 9000
\* lrDecayPerCycle *= 0.95
DecayShrinkPercent == 95
\* lowerBound_ = 1e-7
LowerBound == 1
\* bestValidC = 100, in hundredths
InitialBestValidC == 10000
\* bestValidAcc = 0
InitialBestValidAcc == 0

\* the learning rates a model starts from: 0, 5e-7, 0.002
InitialLrs == {0, 5, 20000}

\* the losses and the accuracies an evaluation pass reports
Losses == {50, 70, InitialBestValidC}

Accuracies == {InitialBestValidAcc, 40, 60}

\* base ** exponent for a whole exponent
RECURSIVE FixPow(_, _)
FixPow(base, exponent) ==
    IF exponent = 0 THEN LrScale
    ELSE (base * FixPow(base, exponent - 1)) \div LrScale

\* a schedule with no floor
NewLrNoFloor(numDataPoints_) ==
    (initialLr * FixPow(lrDecayPerCycle, numDataPoints_ \div trainSize)) \div LrScale

\* _decrease_learning_rate(numDataPoints_): newLr
NewLr(numDataPoints_) ==
    LET lrDecay == FixPow(lrDecayPerCycle, numDataPoints_ \div trainSize)
    IN  Max((initialLr * lrDecay) \div LrScale, LowerBound)

\* train() has not been called
TrainIdle ==
    /\ runScale = "" /\ pc = "idle"
    /\ runConfig = NoConfig
    /\ dataRead = FALSE
    /\ trainSize = 0 /\ initialLr = 0 /\ modelLr = 0
    /\ step = 0 /\ numDataPoints = 0 /\ lr = 0
    /\ bestValidC = 0 /\ bestValidAcc = 0 /\ numValidWorse = 0
    /\ lrDecayPerCycle = 0
    /\ curValidC = 0 /\ curValidAcc = 0
    /\ snapshots = <<>>
    /\ trainCount = 0 /\ validCount = 0 /\ testCount = 0
    /\ seenMinC = 0 /\ seenMaxAcc = 0
    /\ consecWorse = 0 /\ worseCount = 0
    /\ earlyStopped = FALSE
    /\ raised = ""

\* train(sess, dataReaderMaker, modelMaker, runScale, baseLogDir) is entered
TrainEntry(scale) ==
    /\ runScale = scale /\ pc = "start"
    /\ runConfig = NoConfig
    /\ dataRead = FALSE
    /\ trainSize = 0 /\ initialLr = 0 /\ modelLr = 0
    /\ step = 0 /\ numDataPoints = 0 /\ lr = 0
    /\ bestValidC = 0 /\ bestValidAcc = 0 /\ numValidWorse = 0
    /\ lrDecayPerCycle = 0
    /\ curValidC = 0 /\ curValidAcc = 0
    /\ snapshots = <<>>
    /\ trainCount = 0 /\ validCount = 0 /\ testCount = 0
    /\ seenMinC = InitialBestValidC /\ seenMaxAcc = InitialBestValidAcc
    /\ consecWorse = 0 /\ worseCount = 0
    /\ earlyStopped = FALSE
    /\ raised = ""

loopUnchanged == UNCHANGED <<runScale, runConfig, dataRead, trainSize, initialLr>>

\* assert runScale in ['basic', 'tiny', 'small', 'full']
CheckScale ==
    /\ pc = "start"
    /\ pc' = IF runScale \in TrainScales THEN "config" ELSE "rejected"
    /\ UNCHANGED <<runScale, runConfig, dataRead, trainSize, initialLr, modelLr,
                   step, numDataPoints, lr, bestValidC, bestValidAcc,
                   numValidWorse, lrDecayPerCycle, curValidC, curValidAcc, snapshots>>
    /\ UNCHANGED observerVars

\* RunConfig, the data reader, the model, the trackers: up to the loop
Configure ==
    /\ pc = "config"
    /\ IF runScale \in RunConfigScales
       THEN /\ runConfig' = RunConfig(runScale)
            /\ dataRead' = TRUE
            /\ trainSize' = runConfig'.batchSize
            /\ \E lr0 \in InitialLrs : initialLr' = lr0 /\ modelLr' = lr0
            /\ bestValidC' = InitialBestValidC
            /\ bestValidAcc' = InitialBestValidAcc
            /\ numValidWorse' = 0
            /\ lrDecayPerCycle' = InitialLrDecayPerCycle
            /\ step' = 0
            /\ pc' = IF runConfig'.numSteps > 0 THEN "train" ELSE "test"
       ELSE /\ pc' = "rejected"
            /\ UNCHANGED <<runConfig, dataRead, trainSize, initialLr, modelLr,
                           bestValidC, bestValidAcc, numValidWorse,
                           lrDecayPerCycle, step>>
    /\ UNCHANGED <<runScale, numDataPoints, lr, curValidC, curValidAcc, snapshots>>
    /\ UNCHANGED observerVars

\* a for statement that runs one iteration too many
NextIterationOneMore ==
    IF step + 1 <= runConfig.numSteps
    THEN step' = step + 1 /\ pc' = "train"
    ELSE step' = step /\ pc' = "test"

\* the for statement takes the next step, or the loop is exhausted
NextIteration ==
    IF step + 1 < runConfig.numSteps
    THEN step' = step + 1 /\ pc' = "train"
    ELSE step' = step /\ pc' = "test"

\* a validation in every iteration
ValidatesEveryStep(s) == TRUE

\* step % logValidationEvery == 0
ValidatesAt(s) == s % runConfig.logValidationEvery = 0

\* lines 116-123: the learning rate, one train_op, the progress log
TrainStep ==
    /\ pc = "train"
    /\ step < MaxSteps
    /\ numDataPoints' = (step + 1) * runConfig.batchSize
    /\ lr' = NewLr(numDataPoints')
    /\ modelLr' = lr'
    /\ trainCount' = trainCount + 1
    /\ IF ValidatesAt(step)
       THEN pc' = "validate" /\ step' = step
       ELSE NextIteration
    /\ loopUnchanged
    /\ UNCHANGED <<bestValidC, bestValidAcc, numValidWorse, lrDecayPerCycle,
                   curValidC, curValidAcc, snapshots>>
    /\ UNCHANGED <<validCount, testCount, seenMinC, seenMaxAcc, consecWorse,
                   worseCount, earlyStopped, raised>>

\* an error caught by a handler that goes on to the test evaluation
RaiseCaught == pc' = "test"

\* an error of the model meets no handler in train() or evaluate_in_batches: it
\* leaves train()
Raise == pc' = "raised"

\* model.train_op raises
TrainStepRaises ==
    /\ pc = "train"
    /\ step < MaxSteps
    /\ numDataPoints' = (step + 1) * runConfig.batchSize
    /\ lr' = NewLr(numDataPoints')
    /\ modelLr' = lr'
    /\ trainCount' = trainCount + 1
    /\ raised' = "train_op"
    /\ Raise
    /\ loopUnchanged
    /\ UNCHANGED <<step, bestValidC, bestValidAcc, numValidWorse, lrDecayPerCycle,
                   curValidC, curValidAcc, snapshots>>
    /\ UNCHANGED <<validCount, testCount, seenMinC, seenMaxAcc, consecWorse,
                   worseCount, earlyStopped>>

\* line 126: evaluate_in_batches over the validation partition
Validate ==
    /\ pc = "validate"
    /\ \E c \in Losses, acc \in Accuracies :
          /\ curValidC' = c
          /\ curValidAcc' = acc
          /\ seenMinC' = Min(seenMinC, c)
          /\ seenMaxAcc' = Max(seenMaxAcc, acc)
          /\ IF c >= seenMinC /\ acc <= seenMaxAcc
             THEN consecWorse' = consecWorse + 1 /\ worseCount' = worseCount + 1
             ELSE consecWorse' = 0 /\ worseCount' = worseCount
    /\ validCount' = validCount + 1
    /\ pc' = "save"
    /\ loopUnchanged
    /\ UNCHANGED <<modelLr, step, numDataPoints, lr, bestValidC, bestValidAcc,
                   numValidWorse, lrDecayPerCycle, snapshots>>
    /\ UNCHANGED <<trainCount, testCount, earlyStopped, raised>>

\* model.evaluate raises during the validation pass
ValidateRaises ==
    /\ pc = "validate"
    /\ validCount' = validCount + 1
    /\ raised' = "evaluate"
    /\ Raise
    /\ UNCHANGED <<runScale, runConfig, dataRead, trainSize, initialLr, modelLr,
                   step, numDataPoints, lr, bestValidC, bestValidAcc,
                   numValidWorse, lrDecayPerCycle, curValidC, curValidAcc, snapshots>>
    /\ UNCHANGED <<trainCount, testCount, seenMinC, seenMaxAcc, consecWorse,
                   worseCount, earlyStopped>>

\* line 127: saver.save(sess, savePath, global_step=numDataPoints)
SaveSnapshot ==
    /\ pc = "save"
    /\ snapshots' = Append(snapshots, numDataPoints)
    /\ pc' = "decide"
    /\ UNCHANGED <<runScale, runConfig, dataRead, trainSize, initialLr, modelLr,
                   step, numDataPoints, lr, bestValidC, bestValidAcc,
                   numValidWorse, lrDecayPerCycle, curValidC, curValidAcc>>
    /\ UNCHANGED observerVars

\* a comparison that takes an improvement of both metrics to reset the counter
IsWorseEither == curValidC >= bestValidC \/ curValidAcc <= bestValidAcc

\* curValidC >= bestValidC and curValidAcc <= bestValidAcc
IsWorse == curValidC >= bestValidC /\ curValidAcc <= bestValidAcc

\* a test of the tolerance that lets one more validation pass
ToleranceExceeded(n) == n > runConfig.failToImproveTolerance

\* numValidWorse >= runConfig.failToImproveTolerance
ToleranceReached(n) == n >= runConfig.failToImproveTolerance

\* a penalty that leaves the multiplier as it is
ShrinkDecayNot(d) == d

\* lrDecayPerCycle *= 0.95
ShrinkDecay(d) == (d * DecayShrinkPercent) \div 100

\* lines 129-140: the comparison with the best validation so far
Decide ==
    /\ pc = "decide"
    /\ IF IsWorse
       THEN /\ numValidWorse' = numValidWorse + 1
            /\ lrDecayPerCycle' = ShrinkDecay(lrDecayPerCycle)
            /\ UNCHANGED <<bestValidC, bestValidAcc>>
            /\ IF ToleranceReached(numValidWorse')
               THEN pc' = "test" /\ step' = step /\ earlyStopped' = TRUE   \* break
               ELSE NextIteration /\ UNCHANGED earlyStopped
       ELSE /\ bestValidC' = Min(bestValidC, curValidC)
            /\ bestValidAcc' = Max(bestValidAcc, curValidAcc)
            /\ numValidWorse' = 0
            /\ UNCHANGED <<lrDecayPerCycle, earlyStopped>>
            /\ NextIteration
    /\ loopUnchanged
    /\ UNCHANGED <<modelLr, numDataPoints, lr, curValidC, curValidAcc, snapshots>>
    /\ UNCHANGED <<trainCount, validCount, testCount, seenMinC, seenMaxAcc,
                   consecWorse, worseCount, raised>>

\* lines 143-144: evaluate_in_batches over the test partition
Test ==
    /\ pc = "test"
    /\ testCount' = testCount + 1
    /\ pc' = "final_save"
    /\ UNCHANGED <<runScale, runConfig, dataRead, trainSize, initialLr, modelLr,
                   step, numDataPoints, lr, bestValidC, bestValidAcc,
                   numValidWorse, lrDecayPerCycle, curValidC, curValidAcc, snapshots>>
    /\ UNCHANGED <<trainCount, validCount, seenMinC, seenMaxAcc, consecWorse,
                   worseCount, earlyStopped, raised>>

\* model.evaluate raises during the test pass
TestRaises ==
    /\ pc = "test"
    /\ testCount' = testCount + 1
    /\ raised' = "evaluate"
    /\ Raise
    /\ UNCHANGED <<runScale, runConfig, dataRead, trainSize, initialLr, modelLr,
                   step, numDataPoints, lr, bestValidC, bestValidAcc,
                   numValidWorse, lrDecayPerCycle, curValidC, curValidAcc, snapshots>>
    /\ UNCHANGED <<trainCount, validCount, seenMinC, seenMaxAcc, consecWorse,
                   worseCount, earlyStopped>>

\* lines 146-148: saver.save(sess, savePath), the writers are closed
FinalSave ==
    /\ pc = "final_save"
    /\ snapshots' = Append(snapshots, None)
    /\ pc' = "done"
    /\ UNCHANGED <<runScale, runConfig, dataRead, trainSize, initialLr, modelLr,
                   step, numDataPoints, lr, bestValidC, bestValidAcc,
                   numValidWorse, lrDecayPerCycle, curValidC, curValidAcc>>
    /\ UNCHANGED observerVars

(***************************************************************************)
(* Spec: a reader used through all its operations, the batch size varying  *)
(* from call to call.                                                      *)
(***************************************************************************)
Init == (\E n \in 1..MaxN : ReaderInit(n)) /\ passK = 0 /\ PatchIdle /\ TrainIdle /\ BuildIdle

NextBatch ==
    \E k \in BatchSizes, full \in BOOLEAN :
        /\ total + k <= MaxTotal
        /\ get_next_training_batch(k, full)
        /\ passUnchanged
        /\ UNCHANGED <<patchVars, trainVars, observerVars, buildVars>>

Rewind == start_batch_from_beginning /\ passUnchanged /\ UNCHANGED <<patchVars, trainVars, observerVars, buildVars>>

Where == wherechu_at /\ passUnchanged /\ UNCHANGED <<patchVars, trainVars, observerVars, buildVars>>

AllTraining ==
    \E full \in BOOLEAN :
        get_all_training_data(full) /\ passUnchanged /\ UNCHANGED <<patchVars, trainVars, observerVars, buildVars>>

AllValidation ==
    \E full \in BOOLEAN :
        get_validation_data(full) /\ passUnchanged /\ UNCHANGED <<patchVars, trainVars, observerVars, buildVars>>

AllTest ==
    \E full \in BOOLEAN :
        get_test_data(full) /\ passUnchanged /\ UNCHANGED <<patchVars, trainVars, observerVars, buildVars>>

Next ==
    \/ NextBatch
    \/ Rewind
    \/ Where
    \/ AllTraining
    \/ AllValidation
    \/ AllTest

Spec == Init /\ [][Next]_vars

(***************************************************************************)
(* SpecPass: one pass over the training partition of a fresh reader, every *)
(* call asking for the same batch size passK, with no rewind: the calls    *)
(* go on until passK * calls >= N, which is ceil(N / passK) calls.         *)
(***************************************************************************)
InitPass ==
    \E n \in 1..MaxN :
        /\ ReaderInit(n)
        /\ passK \in 1..Min(n, MaxPassBatch)
        /\ PatchIdle
        /\ TrainIdle
        /\ BuildIdle

PassBatch ==
    \E full \in BOOLEAN :
        /\ total < Len(XData_train)
        /\ get_next_training_batch(passK, full)
        /\ visits' = Tally(visits, batchIndices')
        /\ UNCHANGED passK
        /\ UNCHANGED <<patchVars, trainVars, observerVars, buildVars>>

NextPass == PassBatch

SpecPass == InitPass /\ [][NextPass]_vars

(***************************************************************************)
(* SpecPatch: patch_arrays called once on a list of up to MaxArrays        *)
(* matrices of up to MaxRows rows, with numrows None or a number.          *)
(***************************************************************************)
\* the rows a matrix is made of: an all-zero row and a non-zero one
PatchRows == {Row(0), Row(1)}

\* the matrices of up to MaxRows rows
Matrices == UNION {[1..n -> PatchRows] : n \in 0..MaxRows}

InitPatch ==
    /\ ReaderInit(1) /\ passK = 0
    /\ arrays \in UNION {[1..n -> Matrices] : n \in 0..MaxArrays}
    /\ numrows \in {None} \cup (0..(MaxRows + 1))
    /\ patched = [ok |-> FALSE, error |-> "not called"]
    /\ TrainIdle
    /\ BuildIdle

Patch ==
    /\ patched = [ok |-> FALSE, error |-> "not called"]
    /\ patched' = patch_arrays(arrays, numrows)
    /\ UNCHANGED <<arrays, numrows, readerVars, trainVars, observerVars, buildVars>>

NextPatch == Patch

SpecPatch == InitPatch /\ [][NextPatch]_vars

(***************************************************************************)
(* SpecTrain: one call of train() with any scale name.  The reader and     *)
(* the model it is given are its callers' (dataReaderMaker, modelMaker);   *)
(* the model's train_op and evaluate may raise.                            *)
(***************************************************************************)
InitTrain ==
    /\ ReaderInit(1) /\ passK = 0
    /\ PatchIdle
    /\ BuildIdle
    /\ \E scale \in ScaleNames : TrainEntry(scale)

othersUnchanged == UNCHANGED <<readerVars, patchVars, buildVars>>

NextTrain ==
    \/ CheckScale /\ othersUnchanged
    \/ Configure /\ othersUnchanged
    \/ TrainStep /\ othersUnchanged
    \/ TrainStepRaises /\ othersUnchanged
    \/ Validate /\ othersUnchanged
    \/ ValidateRaises /\ othersUnchanged
    \/ SaveSnapshot /\ othersUnchanged
    \/ Decide /\ othersUnchanged
    \/ Test /\ othersUnchanged
    \/ TestRaises /\ othersUnchanged
    \/ FinalSave /\ othersUnchanged

SpecTrain == InitTrain /\ [][NextTrain]_vars

\* train() is sequential: the statement it stands at is executed
FairSpecTrain == SpecTrain /\ WF_vars(NextTrain)

(***************************************************************************)
(* SpecSplit: train_valid_test_split called once on a label sequence of up *)
(* to MaxSplitN examples with three size arguments.                        *)
(***************************************************************************)
\* the size arguments tried: 0.15, 0.35, 0.5, 0.7, and 2 examples
SizeArgs == {PyFloat(3), PyFloat(7), PyFloat(10), PyFloat(14), PyInt(2)}

InitSplit ==
    /\ ReaderInit(1) /\ passK = 0
    /\ PatchIdle
    /\ TrainIdle
    /\ YData_ \in UNION {[1..n -> 0..(NumClasses - 1)] : n \in 0..MaxSplitN}
    /\ trainSize_ \in SizeArgs
    /\ validSize_ \in SizeArgs
    /\ testSize_ \in SizeArgs
    /\ split = [ok |-> FALSE, error |-> "not called"]
    /\ LoadIdle

Split ==
    /\ split = [ok |-> FALSE, error |-> "not called"]
    /\ split' \in train_valid_test_split(YData_, trainSize_, validSize_, testSize_)
    /\ UNCHANGED <<YData_, trainSize_, validSize_, testSize_>>
    /\ UNCHANGED <<readerVars, patchVars, trainVars, observerVars, loadVars>>

NextSplit == Split

SpecSplit == InitSplit /\ [][NextSplit]_vars

(***************************************************************************)
(* SpecLoad: one call of DataReader._read_data_from_files over up to       *)
(* MaxPeople expected identifiers, any of whose files may be missing.      *)
(***************************************************************************)
InitLoad ==
    /\ ReaderInit(1) /\ passK = 0
    /\ PatchIdle
    /\ TrainIdle
    /\ SplitIdle
    /\ LoadEntry

loadOthersUnchanged ==
    UNCHANGED <<readerVars, patchVars, trainVars, observerVars, splitVars>>

NextLoad ==
    \/ OpenPeopleData /\ loadOthersUnchanged
    \/ ReadOne /\ loadOthersUnchanged
    \/ FinishRead /\ loadOthersUnchanged

SpecLoad == InitLoad /\ [][NextLoad]_vars

(***************************************************************************)
(* SpecBuild: a reader is constructed from up to MaxBuildN loaded examples *)
(* and asked for its first training batch.                                 *)
(***************************************************************************)
\* the occupations of n examples: all the same, or changing every two examples
BuildLabels(n) == {[i \in 1..n |-> 0], [i \in 1..n |-> ((i - 1) \div 2) % NumClasses]}

InitBuild ==
    /\ Unbuilt /\ passK = 0
    /\ PatchIdle
    /\ TrainIdle
    /\ SplitIdle
    /\ \E n \in 1..MaxBuildN : \E raw_labels \in BuildLabels(n) : Loaded(raw_labels)

FirstBatch ==
    \E k \in BatchSizes, full \in BOOLEAN :
        /\ call = [op |-> "__init__"]
        /\ get_next_training_batch(k, full)
        /\ passUnchanged
        /\ UNCHANGED <<patchVars, trainVars, observerVars, buildVars>>

NextBuild ==
    \/ Construct
    \/ FirstBatch

SpecBuild == InitBuild /\ [][NextBuild]_vars

(***************************************************************************)
(* The batch sampler: properties.                                          *)
(***************************************************************************)
\* the training indices (c + i) mod N, 0 <= i < k
CyclicWindow(c, k, N) == {(c + i) % N : i \in 0..(k - 1)}

\* C1: a call get_next_training_batch(k), 1 <= k <= N, made at cursor c returns
\* exactly k examples, those at the k distinct training indices (c + i) mod N,
\* 0 <= i < k, in some order; each returned matrix starts with the rows of its
\* example and each returned label is its example's.
C1_BatchIsCyclicWindow ==
    [][call'.op = "get_next_training_batch" =>
        LET N == Len(XData_train)
            k == call'.batchSize_
        IN  /\ Len(batchIndices') = k
            /\ Cardinality(SetOf(batchIndices')) = k
            /\ SetOf(batchIndices') = CyclicWindow(globalBatchIndex, k, N)
            /\ Len(ret'[1]) = k /\ Len(ret'[2]) = k /\ Len(ret'[3]) = k
            /\ \A j \in 1..k :
                  /\ SubSeq(ret'[1][j], 1, ret'[3][j]) = XData_train[batchIndices'[j] + 1]
                  /\ ret'[2][j] = YData_train[batchIndices'[j] + 1]]_vars

\* C1's case: a batch of three that wraps from the tail of a partition of ten to its head
C1_Witness ==
    /\ call.op = "get_next_training_batch"
    /\ Len(XData_train) = 10
    /\ SetOf(batchIndices) = {8, 9, 0}
    /\ globalBatchIndex = 1

\* C2 as claimed: the cursor is the number of examples requested since it was
\* last 0, reduced modulo N, so it is always below N.
C2_CursorIsSumModN ==
    /\ globalBatchIndex = total % Len(XData_train)
    /\ globalBatchIndex < Len(XData_train)

\* C2 as amended: the cursor is congruent modulo N to the number of examples
\* requested since it was last 0, but it is reduced into 1..N, not 0..N-1: it is 0
\* only while nothing was requested, and a batch that ends exactly at the end of
\* the partition leaves it at N; wherechu_at reports that value.
C2_CursorWrapsIntoOneToN ==
    LET N == Len(XData_train)
    IN  /\ globalBatchIndex = (IF total = 0 THEN 0 ELSE ((total - 1) % N) + 1)
        /\ globalBatchIndex \in 0..N
        /\ globalBatchIndex % N = total % N
        /\ call.op = "wherechu_at" => ret = <<globalBatchIndex>>

\* C2's case: the cursor, having wrapped, stands at N and wherechu_at reports N
C2_Witness ==
    /\ call.op = "wherechu_at"
    /\ total = 2 * Len(XData_train)
    /\ Len(XData_train) >= 4
    /\ ret = <<Len(XData_train)>>

\* C3: after ceil(N / k) calls of get_next_training_batch(k) on a fresh reader,
\* every training index was returned at least once and at most
\* ceil(N / k) * k - N + 1 times.
C3_PassCoversPartition ==
    LET N == Len(XData_train)
    IN  total = CeilDiv(N, passK) * passK =>
            \A i \in 0..(N - 1) :
                /\ visits[i] >= 1
                /\ visits[i] <= CeilDiv(N, passK) * passK - N + 1

\* C3's case: ten examples in batches of four; three calls return 0 and 1 twice
C3_Witness ==
    /\ Len(XData_train) = 10
    /\ passK = 4
    /\ total = 12
    /\ visits[0] = 2 /\ visits[1] = 2 /\ visits[2] = 1 /\ visits[9] = 1

(***************************************************************************)
(* patch_arrays: properties.                                               *)
(***************************************************************************)
\* the row counts of the matrices handed to patch_arrays
InputLengths == [i \in DOMAIN arrays |-> Len(arrays[i])]

\* C4: for a non-empty list, with numrows None or a maximum (a number not below
\* the longest matrix), patch_arrays returns; every returned matrix has the same
\* row count P, the list's own maximum when numrows is None and numrows
\* otherwise; P is not below any input's row count; output i starts with the rows
\* of input i and is all-zero after them; and the returned lengths are the
\* inputs' row counts in order.
C4_PaddingInvariant ==
    /\ (/\ patched # [ok |-> FALSE, error |-> "not called"]
        /\ Len(arrays) > 0
        /\ (numrows = None \/ numrows >= MaxOf(InputLengths))) => patched.ok
    /\ patched.ok =>
        LET P == IF numrows = None THEN MaxOf(InputLengths) ELSE numrows
        IN  /\ Len(arrays) > 0
            /\ Len(patched.res) = Len(arrays)
            /\ patched.lengths = InputLengths
            /\ \A i \in DOMAIN arrays :
                  /\ Len(patched.res[i]) = P
                  /\ P >= Len(arrays[i])
                  /\ SubSeq(patched.res[i], 1, Len(arrays[i])) = arrays[i]
                  /\ \A r \in (Len(arrays[i]) + 1)..P :
                        \A c \in 1..FeatureDim : patched.res[i][r][c] = 0
                  /\ \A r \in 1..P : Len(patched.res[i][r]) = FeatureDim

\* C4's case: two matrices of one and two rows padded to a supplied maximum of three
C4_Witness ==
    /\ patched.ok
    /\ Len(arrays) = 2
    /\ Len(arrays[1]) = 1 /\ Len(arrays[2]) = 2
    /\ arrays[1][1] = Row(1)
    /\ numrows = 3
    /\ Len(patched.res[1]) = 3

(***************************************************************************)
(* The training loop: properties.                                          *)
(***************************************************************************)
\* train() is past its set-up: the loop, the test, the end, or an error of the model
Configured == pc \in {"train", "validate", "save", "decide", "test", "final_save",
                      "done", "raised"}

Tolerance == runConfig.failToImproveTolerance

\* C5: the loop is left by its break exactly when failToImproveTolerance
\* validations in a row have improved on neither the best loss nor the best
\* accuracy: never with fewer, and once there are that many, the comparison that
\* follows breaks and no further train step or validation is executed.
C5_EarlyStopExactlyAtTolerance ==
    /\ [](Configured =>
            /\ consecWorse <= Tolerance
            /\ earlyStopped => consecWorse = Tolerance
            /\ consecWorse >= Tolerance => pc \notin {"train", "validate"})
    /\ [][Configured /\ consecWorse >= Tolerance =>
            /\ trainCount' = trainCount
            /\ validCount' = validCount
            /\ pc = "decide" => (pc' = "test" /\ earlyStopped')]_vars

\* C5's case: tolerance 4; the first validation improves, the next four do not,
\* and the run goes to its test after five validations
C5_Witness ==
    /\ pc = "done"
    /\ earlyStopped
    /\ Tolerance = 4
    /\ validCount = 5
    /\ trainCount = 49

\* C6: a DECIDE step with the validation result improving on neither best value
\* adds one to numValidWorse and leaves the best values; any other (an
\* improvement of one metric alone too) sets numValidWorse to 0, bestValidC to
\* the smaller loss and bestValidAcc to the greater accuracy.  So outside the
\* steps between a validation and its DECIDE, bestValidC is the least and
\* bestValidAcc the greatest of the initial values (100, 0) and every result
\* validated so far.
C6_DecideUpdatesTrackers ==
    /\ [][pc = "decide" /\ pc' # "decide" =>
            IF curValidC >= bestValidC /\ curValidAcc <= bestValidAcc
            THEN /\ numValidWorse' = numValidWorse + 1
                 /\ bestValidC' = bestValidC
                 /\ bestValidAcc' = bestValidAcc
            ELSE /\ numValidWorse' = 0
                 /\ bestValidC' = Min(bestValidC, curValidC)
                 /\ bestValidAcc' = Max(bestValidAcc, curValidAcc)]_vars
    /\ [](Configured /\ pc \notin {"save", "decide"} =>
            /\ bestValidC = seenMinC
            /\ bestValidAcc = seenMaxAcc
            /\ numValidWorse = consecWorse)

\* C6's case: the second validation has a worse loss and a better accuracy than
\* the best so far; the counter is 0 and only the best accuracy has moved
C6_Witness ==
    /\ pc = "train"
    /\ validCount = 2
    /\ curValidC = 70 /\ bestValidC = 50
    /\ curValidAcc = 60 /\ bestValidAcc = 60
    /\ numValidWorse = 0

\* the run is over: its end, an error of the model, or a rejected scale
Terminal == pc \in {"done", "raised", "rejected"}

\* C7: a run executes at most numSteps train steps; it evaluates the test
\* partition at most once, only after the loop has ended (numSteps train steps
\* done, or the early stop), and no train step or validation follows; the final
\* snapshot is saved after the test and the run is then done; and every run in
\* which the model does not raise gets there (within the iterations explored).
C7_RunEndsWithOneTest ==
    /\ [](Configured =>
            /\ trainCount <= runConfig.numSteps
            /\ testCount <= 1
            /\ testCount = 1 =>
                  /\ pc \in {"final_save", "done", "raised"}
                  /\ earlyStopped \/ trainCount = runConfig.numSteps
            /\ pc = "final_save" => \A i \in DOMAIN snapshots : snapshots[i] # None
            /\ pc = "done" =>
                  /\ testCount = 1
                  /\ Len(snapshots) > 0
                  /\ snapshots[Len(snapshots)] = None
                  /\ \A i \in 1..(Len(snapshots) - 1) : snapshots[i] # None)
    /\ [][testCount >= 1 => trainCount' = trainCount /\ validCount' = validCount]_vars
    /\ <>(Terminal \/ step >= MaxSteps)

\* C7's case: the 'tiny' run exhausts its 10 steps, every validation improving,
\* tests once, saves and is done
C7_Witness ==
    /\ pc = "done"
    /\ runScale = "tiny"
    /\ ~earlyStopped
    /\ trainCount = 10
    /\ validCount = 4
    /\ testCount = 1
    /\ Len(snapshots) = 5

\* C8: a validation pass runs in iteration step exactly when step mod
\* logValidationEvery = 0 (iteration 0 first), after that iteration's train step;
\* it is followed, before the DECIDE comparison, by a snapshot keyed
\* (step + 1) * batchSize; and the keys grow strictly.
C8_ValidationCadence ==
    Configured /\ pc # "raised" =>
        LET every == runConfig.logValidationEvery
            keyed == SelectSeq(snapshots, LAMBDA key : key # None)
        IN  /\ pc \in {"validate", "save", "decide"} =>
                  /\ step % every = 0
                  /\ trainCount = step + 1
            /\ pc = "train" => validCount = CeilDiv(step, every)
            /\ pc = "validate" => validCount = step \div every
            /\ pc \in {"save", "decide"} => validCount = step \div every + 1
            /\ pc = "save" => Len(keyed) = validCount - 1
            /\ pc # "save" => Len(keyed) = validCount
            /\ pc = "decide" =>
                  keyed[Len(keyed)] = (step + 1) * runConfig.batchSize
            /\ \A i \in 1..(Len(keyed) - 1) : keyed[i] < keyed[i + 1]

\* C8's case: 'tiny' validates in iterations 0 and 3 and saves at 20 and 80 examples
C8_Witness ==
    /\ pc = "decide"
    /\ runScale = "tiny"
    /\ step = 3
    /\ snapshots = <<20, 80>>

\* C9: every train step assigns the model the greater of the decayed rate and
\* lowerBound_, so the assigned rate is never below lowerBound_.
C9_LrNeverBelowFloor ==
    /\ [][trainCount' = trainCount + 1 =>
            /\ lr' = Max(NewLrNoFloor(numDataPoints'), LowerBound)
            /\ lr' >= LowerBound
            /\ modelLr' = lr']_vars
    /\ [](trainCount > 0 => lr >= LowerBound /\ modelLr >= LowerBound)

\* C9's case: an initial rate of 5e-7 has decayed below 1e-7 and the floor is assigned
C9_Witness ==
    /\ pc = "train"
    /\ initialLr = 5
    /\ trainCount > 1
    /\ NewLrNoFloor(numDataPoints) < LowerBound
    /\ lr = LowerBound
    /\ modelLr = LowerBound

\* C10: a run started with one of the five preset names is accepted and runs
\* with that preset's four values; a run started with any other name is rejected
\* before data is read or a train step executes.
C10_PresetsAcceptedOthersRejected ==
    /\ runScale \in RunConfigScales => pc # "rejected"
    /\ runScale \in RunConfigScales /\ Configured => runConfig = RunConfig(runScale)
    /\ runScale \notin RunConfigScales => ~dataRead /\ trainCount = 0 /\ ~Configured

(***************************************************************************)
(* train_valid_test_split: properties.                                     *)
(***************************************************************************)
\* C11: whenever train_valid_test_split returns, for a label sequence of length
\* N and sizes that sum to 1, the three index sets are pairwise disjoint, their
\* union is {0, ..., N-1}, no index is returned twice, and the three lengths sum
\* to N.
C11_SplitIsPartition ==
    split.ok =>
        LET N == Len(YData_)
            T == SetOf(split.train)
            V == SetOf(split.valid)
            S == SetOf(split.test)
        IN  /\ SumsToOne(AsFraction(trainSize_, N), AsFraction(validSize_, N),
                         AsFraction(testSize_, N))
            /\ T \cap V = {} /\ T \cap S = {} /\ V \cap S = {}
            /\ T \cup V \cup S = 0..(N - 1)
            /\ Cardinality(T) = Len(split.train)
            /\ Cardinality(V) = Len(split.valid)
            /\ Cardinality(S) = Len(split.test)
            /\ Len(split.train) + Len(split.valid) + Len(split.test) = N

\* C11's case: five examples of two classes split 0.5 : 0.15 : 0.35 into two
\* training, one validation and two test indices
C11_Witness ==
    /\ split.ok
    /\ Len(YData_) = 5
    /\ Cardinality(SetOf(YData_)) = 2
    /\ trainSize_ = PyFloat(10) /\ validSize_ = PyFloat(3) /\ testSize_ = PyFloat(7)
    /\ Len(split.train) = 2 /\ Len(split.valid) = 1 /\ Len(split.test) = 2

(***************************************************************************)
(* Errors of the model: properties.                                        *)
(***************************************************************************)
\* C12: when the model's train operation or its evaluate operation raises, in
\* the loop or in the test evaluation, train() is left with that error: it never
\* goes on or returns, and after the failing call there is no train step, no
\* validation, no test evaluation and no snapshot; the failing call itself saves
\* nothing.
C12_ModelErrorPropagates ==
    /\ [](Configured => (raised # "" <=> pc = "raised"))
    /\ [][raised # "" =>
            UNCHANGED <<pc, raised, trainCount, validCount, testCount, snapshots>>]_vars
    /\ [][raised = "" /\ raised' # "" =>
            /\ snapshots' = snapshots
            /\ trainCount' + validCount' + testCount'
                  = trainCount + validCount + testCount + 1]_vars

\* C12's case: 'tiny' in iteration 3: the second validation pass raises after
\* four train steps and one snapshot, and nothing follows
C12_Witness ==
    /\ raised = "evaluate"
    /\ pc = "raised"
    /\ runScale = "tiny"
    /\ trainCount = 4
    /\ validCount = 2
    /\ testCount = 0
    /\ snapshots = <<20>>

(***************************************************************************)
(* DataReader._read_data_from_files: properties.                           *)
(***************************************************************************)
\* the identifiers whose file is missing
Missing == {i \in DOMAIN files : ~files[i].exists}

\* C13 as claimed: whichever identifiers are missing from the store, all of them
\* too, a call given a directory or an embeddings file is never ended by an error
\* other than a stored occupation that differs from the expected one; and when it
\* has completed, the loaded examples and the missing count add up to the
\* expected identifiers.
C13_MissingEntriesNeverHalt ==
    vectorFilesDir \/ embeddingsFilename =>
        /\ loadPc \in {"start", "loop", "done", "AssertionError: occupation"}
        /\ loadPc = "done" =>
              /\ nonexist = Cardinality(Missing)
              /\ Len(XData) + nonexist = Len(peopleData)

(***************************************************************************)
(* The cursor and the partitions: who changes what.                        *)
(***************************************************************************)
\* what a whole-partition getter returns for the partition (X, Y): every example
\* once, in stored order, its rows first, with its label and its row count
WholePartition(r, X, Y) ==
    /\ Len(r[1]) = Len(X) /\ Len(r[3]) = Len(X)
    /\ r[2] = Y
    /\ \A j \in DOMAIN X :
          /\ r[3][j] = Len(X[j])
          /\ SubSeq(r[1][j], 1, Len(X[j])) = X[j]

\* C14: no operation of the reader changes the contents or the order of a
\* partition; start_batch_from_beginning sets the cursor to 0 from any state;
\* wherechu_at and the three whole-partition getters leave the cursor; and each
\* getter returns every example of its partition exactly once, in stored order.
\* Only get_next_training_batch moves the cursor away from 0.
C14_OnlySamplerMovesCursor ==
    [][/\ XData_train' = XData_train /\ YData_train' = YData_train
       /\ XData_valid' = XData_valid /\ YData_valid' = YData_valid
       /\ XData_test' = XData_test /\ YData_test' = YData_test
       /\ maxXLen' = maxXLen
       /\ call'.op = "start_batch_from_beginning" => globalBatchIndex' = 0
       /\ call'.op \in {"wherechu_at", "get_all_training_data",
                        "get_validation_data", "get_test_data"} =>
             globalBatchIndex' = globalBatchIndex
       /\ globalBatchIndex' \notin {globalBatchIndex, 0} =>
             call'.op = "get_next_training_batch"
       /\ call'.op = "get_all_training_data" =>
             WholePartition(ret', XData_train, YData_train)
       /\ call'.op = "get_validation_data" =>
             WholePartition(ret', XData_valid, YData_valid)
       /\ call'.op = "get_test_data" =>
             WholePartition(ret', XData_test, YData_test)]_vars

\* C14's case: with the cursor at 7 of 10, the test partition is returned
\* whole, in stored order, and the cursor still stands at 7
C14_Witness ==
    /\ call.op = "get_test_data"
    /\ Len(XData_train) = 10
    /\ globalBatchIndex = 7
    /\ Len(XData_test) = 2
    /\ WholePartition(ret, XData_test, YData_test)

\* C15 as claimed: every call of get_next_training_batch returns four
\* components, the fourth holding one identifier for every returned example, so
\* that a caller unpacking four values succeeds.
C15_BatchHasFourComponents ==
    call.op = "get_next_training_batch" =>
        /\ Len(ret) = 4
        /\ Len(ret[4]) = call.batchSize_

(***************************************************************************)
(* The decay multiplier: properties.                                       *)
(***************************************************************************)
\* 0.9 * 0.95^k in fixed point, rounded down after every multiplication
RECURSIVE DecayAfter(_)
DecayAfter(k) ==
    IF k = 0 THEN InitialLrDecayPerCycle
    ELSE (DecayAfter(k - 1) * DecayShrinkPercent) \div 100

\* C16: lrDecayPerCycle is never increased or reset: once the comparison that
\* follows a validation is done it is 0.9 * 0.95^k, k being the number of
\* non-improving validations of the whole run, not of the current streak, so a
\* validation that improves and resets numValidWorse leaves it as it is; it stays
\* in (0, 0.9]; and the rate a train step assigns is never above the rate the
\* train step before it assigned.
C16_DecayOnlyShrinks ==
    /\ [](Configured /\ pc \notin {"save", "decide"} =>
            lrDecayPerCycle = DecayAfter(worseCount))
    /\ [](Configured =>
            lrDecayPerCycle > 0 /\ lrDecayPerCycle <= InitialLrDecayPerCycle)
    /\ [][Configured => lrDecayPerCycle' <= lrDecayPerCycle]_vars
    /\ [][pc = "decide" /\ numValidWorse' = 0 =>
            lrDecayPerCycle' = lrDecayPerCycle]_vars
    /\ [][trainCount > 0 /\ trainCount' = trainCount + 1 => lr' <= lr]_vars

\* C16's case: 'small', two validations that did not improve with one that did
\* in between and one after: the counter is back at 0, the multiplier stands at
\* 0.9 * 0.95^2, and the rate has fallen below the initial rate
C16_Witness ==
    /\ pc = "train"
    /\ runScale = "small"
    /\ validCount = 4
    /\ worseCount = 2
    /\ numValidWorse = 0
    /\ lrDecayPerCycle = 8122
    /\ lrDecayPerCycle = DecayAfter(2)
    /\ initialLr = 20000
    /\ lr < initialLr /\ lr > LowerBound

(***************************************************************************)
(* Matrices, labels and lengths under the shuffles.                        *)
(***************************************************************************)
\* the loaded examples a partition holds: their positions in XData
ExamplesOf(X) == {i \in DOMAIN XData : \E j \in DOMAIN X : X[j] = LoadedX[i]}

\* C17: the shuffle of the constructor applies one order to XData_train and
\* YData_train: position by position the training partition holds the matrix
\* and the encoded label of one loaded example, no example twice, and none that
\* the validation or the test partition holds.  And in every batch, for every
\* position j, the matrix at j is the zero-padded matrix, the label at j the
\* label, and the length at j the row count of one and the same training example.
C17_ShufflesKeepAlignment ==
    /\ [](call = [op |-> "__init__"] \/ call.op = "get_next_training_batch" =>
            /\ Len(YData_train) = Len(XData_train)
            /\ Len(XData_train) = FloorOf(<<InitTrainFraction.v, FloatUnit>>, Len(XData))
            /\ \A j \in DOMAIN XData_train :
                  \E i \in DOMAIN XData :
                      /\ XData_train[j] = LoadedX[i]
                      /\ YData_train[j] = EncodedY(YData_raw_labels)[i]
            /\ Cardinality(ExamplesOf(XData_train)) = Len(XData_train)
            /\ ExamplesOf(XData_train) \cap ExamplesOf(XData_valid) = {}
            /\ ExamplesOf(XData_train) \cap ExamplesOf(XData_test) = {})
    /\ [][call'.op = "get_next_training_batch" =>
            \A j \in 1..call'.batchSize_ :
                \E e \in DOMAIN XData_train :
                    /\ e - 1 = batchIndices'[j]
                    /\ ret'[3][j] = Len(XData_train[e])
                    /\ SubSeq(ret'[1][j], 1, ret'[3][j]) = XData_train[e]
                    /\ \A q \in (ret'[3][j] + 1)..Len(ret'[1][j]) :
                          ret'[1][j][q] = Row(0)
                    /\ ret'[2][j] = YData_train[e]]_vars

\* C17's case: seven examples of two classes; the training partition starts
\* with the seventh and the second example loaded, and a batch of two comes back
\* in the opposite order, with two different labels and two different lengths
C17_Witness ==
    /\ call.op = "get_next_training_batch"
    /\ Len(XData) = 7
    /\ Len(XData_train) = 4
    /\ XData_train[1] = LoadedX[7] /\ XData_train[2] = LoadedX[2]
    /\ batchIndices = <<1, 0>>
    /\ ret[2][1] # ret[2][2]
    /\ ret[3] = <<2, 1>>
    /\ ret[2][1] = YData_train[2]
    /\ Len(ret[1][2]) = 2

====
